---- MODULE Spec2Model ----
(***************************************************************************)
(* Live ring-modulation patch (src/script.js): the AudioContext and its    *)
(* control-message queue, the module's top-level startup sequence, the     *)
(* On/Off click listener, the two slider listeners and the AudioParam      *)
(* automation timelines they schedule on.                                   *)
(*                                                                         *)
(* Time is counted in render steps of 5 milliseconds of Context time.      *)
(* Parameter values and samples are fixed-point numbers, Scale units = 1.  *)
(***************************************************************************)
EXTENDS Integers, Sequences, FiniteSets, TLC

VARIABLES
    pc,                 \* position of the module's top-level code
    ctxState,           \* liveRingModCtx.state
    currentTime,        \* liveRingModCtx.currentTime, in render steps
    pendingOps,         \* control messages of the Context still in flight
    completed,          \* history: the control messages the Context has settled
    micInputStream,     \* result of getUserMedia
    micNode,            \* MediaStreamAudioSourceNode created or not
    modOsc,             \* OscillatorNode
    modFreq,            \* ConstantSourceNode
    modulationGainNode, \* GainNode (depth)
    masterGainNode,     \* GainNode (output level)
    audioOn,            \* transport flag
    onOffText,          \* onOff.innerText
    listeners,          \* the set of registered event listeners
    modLabel,           \* modLabel.innerText
    gainLabel,          \* gainLabel.innerText
    nInputs,            \* history: number of slider input events handled
    delivered,          \* number of frames handed to the audio device
    frame               \* the samples of the last rendered frame

vars == <<pc, ctxState, currentTime, pendingOps, completed, micInputStream,
          micNode, modOsc, modFreq, modulationGainNode, masterGainNode,
          audioOn, onOffText, listeners, modLabel, gainLabel, nInputs,
          delivered, frame>>

nodeVars == <<micNode, modOsc, modFreq, modulationGainNode, masterGainNode>>
uiVars == <<audioOn, onOffText, listeners, modLabel, gainLabel>>

----------------------------------------------------------------------------
(* Bounds of the model *)

MaxTime == 3        \* render steps the Context may advance
MaxToggles == 3     \* click events on the On/Off button
MaxInputs == 2      \* slider input events

(* Fixed point and time base *)

Scale == 10 ^ 3     \* fixed-point units per 1.0
RampTicks == 2      \* the "+ 0.01" of both slider listeners, in render steps

(* Inputs the host environment can deliver *)

Digits == {"0", "1", "2", "3", "4", "5", "6", "7", "8", "9"}

RateInputs == { <<"1", "2">>, <<"-", "3">>, <<"x">> }
LevelInputs == { <<"-", "6">>, <<"x">> }
CarrierSamples == { Scale }
OscSamples == { -Scale, Scale }

----------------------------------------------------------------------------
(* Pure helpers *)

DigitVal(ch) ==
    CASE ch = "0" -> 0 [] ch = "1" -> 1 [] ch = "2" -> 2 [] ch = "3" -> 3
      [] ch = "4" -> 4 [] ch = "5" -> 5 [] ch = "6" -> 6 [] ch = "7" -> 7
      [] ch = "8" -> 8 [] ch = "9" -> 9

RECURSIVE DigitsVal(_)
DigitsVal(s) ==
    IF s = <<>> THEN 0
    ELSE 10 * DigitsVal(SubSeq(s, 1, Len(s) - 1)) + DigitVal(s[Len(s)])

NaN == [nan |-> TRUE, n |-> 0]
Num(k) == [nan |-> FALSE, n |-> k]

\* Number(event.target.value) for integer literals: the empty string is 0,
\* an optional sign followed by digits is that integer, anything else NaN.
\* The result is in fixed point.
Number(s) ==
    IF s = <<>> THEN Num(0)
    ELSE LET neg == s[1] = "-"
             body == IF s[1] \in {"-", "+"} THEN Tail(s) ELSE s
         IN IF body = <<>> \/ \E i \in DOMAIN body : body[i] \notin Digits
            THEN NaN
            ELSE Num((IF neg THEN -1 ELSE 1) * DigitsVal(body) * Scale)

\* 10 ** (k / 20) for k = 0..19, in fixed point
Pow10Frac ==
    <<1000, 1122, 1259, 1413, 1585, 1778, 1995, 2239, 2512, 2818,
      3162, 3548, 3981, 4467, 5012, 5623, 6310, 7079, 7943, 8913>>

\* A double as db2a returns it: (m / 1000) * 10 ^ e with m in 1000..9999,
\* or 0 (m = 0), or Infinity, or NaN
Double(m, e) == [nan |-> FALSE, inf |-> FALSE, m |-> m, e |-> e]
DoubleZero == Double(0, 0)
DoubleInf == [nan |-> FALSE, inf |-> TRUE, m |-> 0, e |-> 0]
DoubleNaN == [nan |-> TRUE, inf |-> FALSE, m |-> 0, e |-> 0]

\* the range of a double: above 1.797e308 is Infinity, below half of the
\* least subnormal 4.94e-324 is 0
MaxExp == 308
MaxMant == 1797
MinExp == -324
MinMant == 2470

\* db2a with the divisor of power decibels
db2aPower(dBFS) ==
    IF dBFS.nan THEN DoubleNaN
    ELSE LET d == dBFS.n \div Scale
             q == d \div 10
             m == Pow10Frac[2 * (d % 10) + 1]
         IN IF q > MaxExp \/ (q = MaxExp /\ m > MaxMant) THEN DoubleInf
            ELSE IF q < MinExp \/ (q = MinExp /\ m < MinMant) THEN DoubleZero
            ELSE Double(m, q)

\* db2a: 10 ** (dBFS / 20) in double arithmetic; NaN in, NaN out
db2a(dBFS) ==
    IF dBFS.nan THEN DoubleNaN
    ELSE LET d == dBFS.n \div Scale
             q == d \div 20
             m == Pow10Frac[(d % 20) + 1]
         IN IF q > MaxExp \/ (q = MaxExp /\ m > MaxMant) THEN DoubleInf
            ELSE IF q < MinExp \/ (q = MinExp /\ m < MinMant) THEN DoubleZero
            ELSE Double(m, q)

\* The conversion of a double to the float argument of an AudioParam method:
\* NaN, Infinity and anything beyond 3.4028e38 make the call throw a
\* TypeError (NaN here); the rest becomes a fixed-point parameter value,
\* which holds nothing below 1 / Scale.
FloatMaxExp == 38
FloatMaxMant == 3402

ToFloat(x) ==
    IF x.nan \/ x.inf THEN NaN
    ELSE IF x.e > FloatMaxExp \/ (x.e = FloatMaxExp /\ x.m > FloatMaxMant)
    THEN NaN
    ELSE IF x.e < -4 THEN Num(0)
    ELSE IF x.e < 0 THEN Num(((x.m * Scale) \div 1000) \div (10 ^ (0 - x.e)))
    ELSE Num(((x.m * Scale) \div 1000) * (10 ^ x.e))

----------------------------------------------------------------------------
(* AudioParam automation timeline *)

AudioParam(v) == [value |-> v, events |-> <<>>]

SetValueEvent(v, t) == [type |-> "setValue", value |-> v, time |-> t]
RampEvent(v, t) == [type |-> "linearRamp", value |-> v, time |-> t]

\* AudioParam.cancelScheduledValues(t): drop every event at or after t
cancelScheduledValues(p, t) ==
    [p EXCEPT !.events = SelectSeq(p.events, LAMBDA e : e.time < t)]

\* AudioParam.linearRampToValueAtTime(v, endTime) called at Context time now.
\* With no preceding event the ramp starts as if setValueAtTime(value, now)
\* had been called.  endTime is later than every event left in the timeline
\* by both callers, so the event is appended.
linearRampToValueAtTime(p, v, endTime, now) ==
    [p EXCEPT !.events =
        (IF p.events = <<>> THEN <<SetValueEvent(p.value, now)>> ELSE p.events)
        \o <<RampEvent(v, endTime)>>]

\* index of the last event at or before t, 0 if none
RECURSIVE LastAtOrBefore(_, _, _)
LastAtOrBefore(evs, t, i) ==
    IF i = 0 THEN 0
    ELSE IF evs[i].time <= t THEN i ELSE LastAtOrBefore(evs, t, i - 1)

\* the value the timeline of p gives at Context time t
ComputedValue(p, t) ==
    LET evs == p.events
        i == LastAtOrBefore(evs, t, Len(evs))
    IN IF i = 0 THEN p.value
       ELSE IF i < Len(evs) /\ evs[i + 1].type = "linearRamp"
            THEN evs[i].value
                 + ((evs[i + 1].value - evs[i].value) * (t - evs[i].time))
                   \div (evs[i + 1].time - evs[i].time)
            ELSE evs[i].value

\* one render step of a parameter
RenderParam(p, t) == [p EXCEPT !.value = ComputedValue(p, t)]

----------------------------------------------------------------------------
(* Nodes as the top-level code constructs them *)

Absent == [created |-> FALSE, starts |-> 0, param |-> AudioParam(0)]

\* new MediaStreamAudioSourceNode(liveRingModCtx, {mediaStream})
NewMicNode == [created |-> TRUE, starts |-> 0, param |-> AudioParam(0)]

\* NewModOsc without the start() call
NewModOscNotStarted == [created |-> TRUE, starts |-> 0, param |-> AudioParam(0)]

\* new OscillatorNode(liveRingModCtx, {frequency: 0}); modOsc.start()
\* param is modOsc.frequency
NewModOsc == [created |-> TRUE, starts |-> 1, param |-> AudioParam(0)]

\* new ConstantSourceNode(liveRingModCtx, {offset: 5.}); modFreq.start()
\* param is modFreq.offset
NewModFreq == [created |-> TRUE, starts |-> 1, param |-> AudioParam(5 * Scale)]

\* NewModulationGainNode at full depth
NewModulationGainNodeFull ==
    [created |-> TRUE, starts |-> 0, param |-> AudioParam(1 * Scale)]

\* new GainNode(liveRingModCtx, {gain: 0.}); param is the gain
NewModulationGainNode ==
    [created |-> TRUE, starts |-> 0, param |-> AudioParam(0)]

\* new GainNode(liveRingModCtx, {gain: 1.}); param is the gain
NewMasterGainNode ==
    [created |-> TRUE, starts |-> 0, param |-> AudioParam(1 * Scale)]

\* The connect() calls of the script, as <<source, destination>> pairs.
\* The section between the node definitions and the listeners holds none.
Connections == {}

ConnectedTo(dest) == { c[1] : c \in { x \in Connections : x[2] = dest } }

\* sum of the outputs of the nodes connected to dest; outs maps a node to
\* its output sample
InputSum(dest, outs) ==
    LET S == ConnectedTo(dest)
        part(n) == IF n \in S THEN outs[n] ELSE 0
    IN part("micNode") + part("modOsc") + part("modFreq")
       + part("modulationGainNode") + part("masterGainNode")

\* GainNode: every input sample times the gain
GainOut(in, g) == (in * g) \div Scale

\* modOsc.frequency as the oscillator sees it: its own value plus whatever
\* is connected to the parameter
OscFrequency(osc, outs) == osc.param.value + InputSum("modOsc.frequency", outs)

\* The output of the oscillator: a sine of phase 0 at 0 Hz, silence before
\* start(), otherwise some sample of the waveform
OscOut(osc, freq, any) ==
    IF osc.starts = 0 \/ freq = 0 THEN 0 ELSE any

\* RingOut that passes the dry carrier
RingOutDry(c, o, g) == c

\* the output of the depth stage for carrier sample c and oscillator sample o
RingOut(c, o, g) ==
    GainOut(InputSum("modulationGainNode",
                     [n \in {"micNode", "modOsc", "modFreq",
                             "modulationGainNode", "masterGainNode"} |->
                        CASE n = "micNode" -> c
                          [] n = "modOsc" -> o
                          [] OTHER -> 0]), g)

NoFrame == [carrier |-> 0, osc |-> 0, freq |-> 0, ring |-> 0, out |-> 0,
            sink |-> 0]

\* one rendered frame at Context time t
RenderFrame(c, any, mf, osc, depth, master) ==
    LET k == IF mf.starts = 0 THEN 0 ELSE mf.param.value
        src0 == [n \in {"micNode", "modOsc", "modFreq", "modulationGainNode",
                        "masterGainNode"} |->
                    CASE n = "micNode" -> c [] n = "modFreq" -> k
                      [] OTHER -> 0]
        f == OscFrequency(osc, src0)
        o == OscOut(osc, f, any)
        ring == RingOut(c, o, depth.param.value)
        src1 == [src0 EXCEPT !["modOsc"] = o, !["modulationGainNode"] = ring]
        out == GainOut(InputSum("masterGainNode", src1), master.param.value)
        src2 == [src1 EXCEPT !["masterGainNode"] = out]
    IN [carrier |-> c, osc |-> o, freq |-> f, ring |-> ring, out |-> out,
        sink |-> InputSum("destination", src2)]

----------------------------------------------------------------------------
(* The Context *)

Op(o, b) == [op |-> o, by |-> b]

\* the state a settled control message leaves the Context in
StateAfter(o) == IF o \in {"resume", "start"} THEN "running" ELSE "suspended"

TogglesIssued ==
    Cardinality({ i \in DOMAIN pendingOps : pendingOps[i].by = "toggle" })
    + Cardinality({ i \in DOMAIN completed : completed[i].by = "toggle" })

----------------------------------------------------------------------------
(* Initial state: new AudioContext() has run.  The Context is created
   suspended; where the host allows audio without a user gesture, a message
   that starts it is already queued. *)

Init ==
    /\ pc = "suspend"
    /\ ctxState = "suspended"
    /\ currentTime = 0
    /\ pendingOps \in { <<>>, <<Op("start", "constructor")>> }
    /\ completed = <<>>
    /\ micInputStream = "none"
    /\ micNode = Absent
    /\ modOsc = Absent
    /\ modFreq = Absent
    /\ modulationGainNode = Absent
    /\ masterGainNode = Absent
    /\ audioOn = FALSE
    /\ onOffText = "(html)"
    /\ listeners = {}
    /\ modLabel = <<>>
    /\ gainLabel = <<>>
    /\ nInputs = 0
    /\ delivered = 0
    /\ frame = NoFrame

----------------------------------------------------------------------------
(* Top-level code of the module *)

\* StartupSuspend without the call: the module goes on to getUserMedia
StartupSuspendSkipped ==
    /\ pc = "suspend"
    /\ pc' = "getUserMedia"
    /\ UNCHANGED <<ctxState, currentTime, pendingOps, completed,
                   micInputStream, nodeVars, uiVars, nInputs, delivered, frame>>

\* await liveRingModCtx.suspend(): the call
StartupSuspend ==
    /\ pc = "suspend"
    /\ pendingOps' = Append(pendingOps, Op("suspend", "startup"))
    /\ pc' = "awaitSuspend"
    /\ UNCHANGED <<ctxState, currentTime, completed, micInputStream, nodeVars,
                   uiVars, nInputs, delivered, frame>>

\* await navigator.mediaDevices.getUserMedia(...) resolves with a stream
GetUserMediaResolve ==
    /\ pc = "getUserMedia"
    /\ micInputStream' = "stream"
    /\ pc' = "build"
    /\ UNCHANGED <<ctxState, currentTime, pendingOps, completed, nodeVars,
                   uiVars, nInputs, delivered, frame>>

\* GetUserMediaReject with the rejection swallowed: the module goes on
GetUserMediaRejectSwallowed ==
    /\ pc = "getUserMedia"
    /\ micInputStream' = "rejected"
    /\ pc' = "build"
    /\ UNCHANGED <<ctxState, currentTime, pendingOps, completed, nodeVars,
                   uiVars, nInputs, delivered, frame>>

\* getUserMedia rejects (permission denied, no device): the top-level await
\* throws and evaluation of the module ends
GetUserMediaReject ==
    /\ pc = "getUserMedia"
    /\ micInputStream' = "rejected"
    /\ pc' = "failed"
    /\ UNCHANGED <<ctxState, currentTime, pendingOps, completed, nodeVars,
                   uiVars, nInputs, delivered, frame>>

\* InitialAudioOn that does not look at the Context
InitialAudioOnAssumed(state) == TRUE

\* audioOn after "let audioOn = false; if (state === running) audioOn = true"
InitialAudioOn(state) == state = "running"

\* the rest of the module, which runs without a further await: the nodes,
\* the start() calls, the transport flag and the three listeners
SetupGraph ==
    /\ pc = "build"
    /\ micNode' = NewMicNode
    /\ modOsc' = NewModOsc
    /\ modFreq' = NewModFreq
    /\ modulationGainNode' = NewModulationGainNode
    /\ masterGainNode' = NewMasterGainNode
    /\ audioOn' = InitialAudioOn(ctxState)
    /\ onOffText' = IF ctxState = "running" THEN "Off" ELSE onOffText
    /\ listeners' = {"click", "modInput", "gainInput"}
    /\ pc' = "ready"
    /\ UNCHANGED <<ctxState, currentTime, pendingOps, completed,
                   micInputStream, modLabel, gainLabel, nInputs, delivered,
                   frame>>

----------------------------------------------------------------------------
(* The Context settles its control messages in the order they were sent *)

\* history entry of a settled message: the message, whether its promise
\* resolved, and how many slider events had been handled by then
Settled(m, ok) == [op |-> m.op, by |-> m.by, ok |-> ok, inputs |-> nInputs]

\* what the code awaiting the settled call of message m does next
Continue(m, ok) ==
    IF m.by = "startup"
    THEN IF ok THEN "getUserMedia" ELSE "failed"
    ELSE pc

\* ResolveTransition that settles the latest message first
ResolveTransitionLatestFirst ==
    /\ pendingOps # <<>>
    /\ LET m == pendingOps[Len(pendingOps)]
       IN /\ ctxState' = StateAfter(m.op)
          /\ completed' = Append(completed, Settled(m, TRUE))
          /\ pc' = Continue(m, TRUE)
    /\ pendingOps' = SubSeq(pendingOps, 1, Len(pendingOps) - 1)
    /\ UNCHANGED <<currentTime, micInputStream, nodeVars, uiVars, nInputs,
                   delivered, frame>>

\* ResolveTransition that flips the state on every suspend() and resume()
ResolveTransitionFlips ==
    /\ pendingOps # <<>>
    /\ LET m == Head(pendingOps)
       IN /\ ctxState' = IF m.op = "start" THEN "running"
                          ELSE IF ctxState = "running" THEN "suspended"
                          ELSE "running"
          /\ completed' = Append(completed, Settled(m, TRUE))
          /\ pc' = Continue(m, TRUE)
    /\ pendingOps' = Tail(pendingOps)
    /\ UNCHANGED <<currentTime, micInputStream, nodeVars, uiVars, nInputs,
                   delivered, frame>>

ResolveTransition ==
    /\ pendingOps # <<>>
    /\ LET m == Head(pendingOps)
       IN /\ ctxState' = StateAfter(m.op)
          /\ completed' = Append(completed, Settled(m, TRUE))
          /\ pc' = Continue(m, TRUE)
    /\ pendingOps' = Tail(pendingOps)
    /\ UNCHANGED <<currentTime, micInputStream, nodeVars, uiVars, nInputs,
                   delivered, frame>>

\* the device refuses the transition: the promise rejects, the state stays.
\* A call for the state the Context is already in asks nothing of the device
\* and resolves.
RejectTransition ==
    /\ pendingOps # <<>>
    /\ Head(pendingOps).op \in {"suspend", "resume"}
    /\ ctxState # StateAfter(Head(pendingOps).op)
    /\ LET m == Head(pendingOps)
       IN /\ completed' = Append(completed, [op |-> m.op, by |-> m.by,
                                             ok |-> FALSE])
          /\ pc' = Continue(m, FALSE)
    /\ pendingOps' = Tail(pendingOps)
    /\ UNCHANGED <<ctxState, currentTime, micInputStream, nodeVars, uiVars,
                   nInputs, delivered, frame>>

\* Tick on a timeline that follows the wall clock, suspended or not
TickWallClock ==
    /\ currentTime < MaxTime
    /\ currentTime' = currentTime + 1
    /\ modOsc' = [modOsc EXCEPT !.param = RenderParam(@, currentTime')]
    /\ modFreq' = [modFreq EXCEPT !.param = RenderParam(@, currentTime')]
    /\ modulationGainNode' =
         [modulationGainNode EXCEPT !.param = RenderParam(@, currentTime')]
    /\ masterGainNode' =
         [masterGainNode EXCEPT !.param = RenderParam(@, currentTime')]
    /\ \E c \in CarrierSamples, any \in OscSamples :
         frame' = RenderFrame(IF micNode.created THEN c ELSE 0, any, modFreq',
                              modOsc', modulationGainNode', masterGainNode')
    /\ delivered' = delivered + 1
    /\ UNCHANGED <<pc, ctxState, pendingOps, completed, micInputStream,
                   micNode, uiVars, nInputs>>

\* one render step: only a running Context renders
Tick ==
    /\ ctxState = "running"
    /\ currentTime < MaxTime
    /\ currentTime' = currentTime + 1
    /\ modOsc' = [modOsc EXCEPT !.param = RenderParam(@, currentTime')]
    /\ modFreq' = [modFreq EXCEPT !.param = RenderParam(@, currentTime')]
    /\ modulationGainNode' =
         [modulationGainNode EXCEPT !.param = RenderParam(@, currentTime')]
    /\ masterGainNode' =
         [masterGainNode EXCEPT !.param = RenderParam(@, currentTime')]
    /\ \E c \in CarrierSamples, any \in OscSamples :
         frame' = RenderFrame(IF micNode.created THEN c ELSE 0, any, modFreq',
                              modOsc', modulationGainNode', masterGainNode')
    /\ delivered' = delivered + 1
    /\ UNCHANGED <<pc, ctxState, pendingOps, completed, micInputStream,
                   micNode, uiVars, nInputs>>

----------------------------------------------------------------------------
(* Event listeners *)

\* OnOffClick that also rebuilds the output stage when it turns audio off
OnOffClickResets ==
    /\ "click" \in listeners
    /\ TogglesIssued < MaxToggles
    /\ IF audioOn
       THEN /\ onOffText' = "Turn Off"
            /\ audioOn' = FALSE
            /\ pendingOps' = Append(pendingOps, Op("suspend", "toggle"))
            /\ masterGainNode' = NewMasterGainNode
       ELSE /\ onOffText' = "Turn On"
            /\ audioOn' = TRUE
            /\ pendingOps' = Append(pendingOps, Op("resume", "toggle"))
            /\ masterGainNode' = masterGainNode
    /\ UNCHANGED <<pc, ctxState, currentTime, completed, micInputStream,
                   micNode, modOsc, modFreq, modulationGainNode, listeners,
                   modLabel, gainLabel, nInputs, delivered, frame>>

\* OnOffClick that leaves audioOn alone when it turns audio on
OnOffClickNoFlip ==
    /\ "click" \in listeners
    /\ TogglesIssued < MaxToggles
    /\ IF audioOn
       THEN /\ onOffText' = "Turn Off"
            /\ audioOn' = FALSE
            /\ pendingOps' = Append(pendingOps, Op("suspend", "toggle"))
       ELSE /\ onOffText' = "Turn On"
            /\ audioOn' = audioOn
            /\ pendingOps' = Append(pendingOps, Op("resume", "toggle"))
    /\ UNCHANGED <<pc, ctxState, currentTime, completed, micInputStream,
                   nodeVars, listeners, modLabel, gainLabel, nInputs,
                   delivered, frame>>

\* onOff "click"
OnOffClick ==
    /\ "click" \in listeners
    /\ TogglesIssued < MaxToggles
    /\ IF audioOn
       THEN /\ onOffText' = "Turn Off"
            /\ audioOn' = FALSE
            /\ pendingOps' = Append(pendingOps, Op("suspend", "toggle"))
       ELSE /\ onOffText' = "Turn On"
            /\ audioOn' = TRUE
            /\ pendingOps' = Append(pendingOps, Op("resume", "toggle"))
    /\ UNCHANGED <<pc, ctxState, currentTime, completed, micInputStream,
                   nodeVars, listeners, modLabel, gainLabel, nInputs,
                   delivered, frame>>

\* Reschedule without the cancelScheduledValues call
RescheduleNoCancel(p, v, now) ==
    IF v.nan THEN p
    ELSE linearRampToValueAtTime(p, v.n, now + RampTicks, now)

\* cancelScheduledValues(now) then linearRampToValueAtTime(v, now + 0.01);
\* a target that is not a finite number makes the second call throw a
\* TypeError after the first has run
Reschedule(p, v, now) ==
    LET cancelled == cancelScheduledValues(p, now)
    IN IF v.nan THEN cancelled
       ELSE linearRampToValueAtTime(cancelled, v.n, now + RampTicks, now)

\* modSlider "input"
ModSliderInput(s) ==
    /\ "modInput" \in listeners
    /\ nInputs < MaxInputs
    /\ LET newModRate == Number(s)
           now == currentTime
       IN /\ modLabel' = <<s, "Hz">>
          /\ modFreq' = [modFreq EXCEPT !.param = Reschedule(@, newModRate, now)]
    /\ nInputs' = nInputs + 1
    /\ UNCHANGED <<pc, ctxState, currentTime, pendingOps, completed,
                   micInputStream, micNode, modOsc, modulationGainNode,
                   masterGainNode, audioOn, onOffText, listeners, gainLabel,
                   delivered, frame>>

\* GainSliderInput that schedules on modFreq.offset
GainSliderInputOnRate(s) ==
    /\ "gainInput" \in listeners
    /\ nInputs < MaxInputs
    /\ LET newDBFS == Number(s)
           now == currentTime
       IN /\ gainLabel' = <<newDBFS, "dBFS">>
          /\ modFreq' =
               [modFreq EXCEPT
                  !.param = Reschedule(@, ToFloat(db2a(newDBFS)), now)]
    /\ nInputs' = nInputs + 1
    /\ UNCHANGED <<pc, ctxState, currentTime, pendingOps, completed,
                   micInputStream, micNode, modOsc, masterGainNode,
                   modulationGainNode, audioOn, onOffText, listeners, modLabel,
                   delivered, frame>>

\* gainSlider "input"
GainSliderInput(s) ==
    /\ "gainInput" \in listeners
    /\ nInputs < MaxInputs
    /\ LET newDBFS == Number(s)
           now == currentTime
       IN /\ gainLabel' = <<newDBFS, "dBFS">>
          /\ masterGainNode' =
               [masterGainNode EXCEPT
                  !.param = Reschedule(@, ToFloat(db2a(newDBFS)), now)]
    /\ nInputs' = nInputs + 1
    /\ UNCHANGED <<pc, ctxState, currentTime, pendingOps, completed,
                   micInputStream, micNode, modOsc, modFreq,
                   modulationGainNode, audioOn, onOffText, listeners, modLabel,
                   delivered, frame>>

----------------------------------------------------------------------------

Next ==
    \/ StartupSuspend
    \/ GetUserMediaResolve
    \/ GetUserMediaReject
    \/ SetupGraph
    \/ ResolveTransition
    \/ RejectTransition
    \/ Tick
    \/ OnOffClick
    \/ \E s \in RateInputs : ModSliderInput(s)
    \/ \E s \in LevelInputs : GainSliderInput(s)

Spec == Init /\ [][Next]_vars

----------------------------------------------------------------------------

TypeOK ==
    /\ pc \in {"suspend", "awaitSuspend", "getUserMedia", "build", "ready",
               "failed"}
    /\ ctxState \in {"suspended", "running"}
    /\ currentTime \in 0..MaxTime
    /\ audioOn \in BOOLEAN
    /\ delivered = currentTime

----------------------------------------------------------------------------
(* Transport *)

InFlight ==
    { i \in DOMAIN pendingOps : pendingOps[i].op \in {"suspend", "resume"} }

LastSettled == completed'[Len(completed')]

SettleStep == Len(completed') = Len(completed) + 1

\* the label the click listener writes when it requests o
RequestLabel(o) == IF o = "resume" THEN "Turn On" ELSE "Turn Off"

\* C1: while the suspend() or resume() requested by the latest toggle is
\* still in flight, the transport (audioOn and the button label) does not
\* yet report the state that call leads to.
C1_FlipOnlyAfterCompletion ==
    pendingOps # <<>> =>
        LET m == pendingOps[Len(pendingOps)]
        IN m.by = "toggle" =>
              /\ audioOn = (m.op = "suspend")
              /\ onOffText # RequestLabel(m.op)

\* C2: when the device rejects the suspend() or resume() of a toggle, the
\* transport is as it was before that toggle (audioOn still selects the same
\* request, the label is not the one of the failed request) and the Context
\* keeps its state.
C2_RejectedToggleLeavesState ==
    [][(SettleStep /\ LastSettled.by = "toggle" /\ ~LastSettled.ok) =>
          /\ audioOn' = (LastSettled.op = "suspend")
          /\ onOffText' # RequestLabel(LastSettled.op)
          /\ ctxState' = ctxState]_vars

\* C3: at most one suspend() or resume() call is in flight at any time.
C3_AtMostOneInFlight == Cardinality(InFlight) <= 1

----------------------------------------------------------------------------
(* Sample delivery *)

ResumeCompleted ==
    \E i \in DOMAIN completed : completed[i].op = "resume" /\ completed[i].ok

\* C4: no step taken while the Context is suspended hands a frame to the
\* audio device, and none does between graph construction and the first
\* completed resume().
C4_NoSampleWhileSuspended ==
    [][(ctxState = "suspended" \/ (pc = "ready" /\ ~ResumeCompleted)) =>
          delivered' = delivered]_vars

C4_Witness ==
    /\ pc = "ready"
    /\ ctxState = "suspended"
    /\ ResumeCompleted
    /\ delivered > 0

----------------------------------------------------------------------------
(* Startup *)

NoUserEvent == TogglesIssued = 0 /\ nInputs = 0

\* C5: once startup has completed and before any user event, the Context is
\* suspended, the transport is Off and agrees with the Context, the rate
\* offset is 5 Hz, the depth gain 0, the master gain 1 and the oscillator's
\* base frequency 0, with nothing scheduled on any of them.
C5_InitialState ==
    (pc = "ready" /\ NoUserEvent) =>
        /\ ctxState = "suspended"
        /\ audioOn = FALSE
        /\ audioOn = (ctxState = "running")
        /\ modFreq.param = AudioParam(5 * Scale)
        /\ modulationGainNode.param = AudioParam(0)
        /\ masterGainNode.param = AudioParam(Scale)
        /\ modOsc.param = AudioParam(0)

C5_Witness == pc = "ready" /\ NoUserEvent /\ modFreq.created

\* C10: once getUserMedia has rejected, the module has stopped with the
\* failure, no node exists, no listener is registered and the Context is
\* suspended with no call in flight.
C10_MicFailureStopsStartup ==
    micInputStream = "rejected" =>
        /\ pc = "failed"
        /\ ~micNode.created /\ ~modOsc.created /\ ~modFreq.created
        /\ ~modulationGainNode.created /\ ~masterGainNode.created
        /\ listeners = {}
        /\ ctxState = "suspended"
        /\ pendingOps = <<>>

C10_Witness == micInputStream = "rejected" /\ pc = "failed"

----------------------------------------------------------------------------
(* Rate control *)

\* two rate updates less than RampTicks apart have been handled and nothing
\* else: the timeline holds the start of the first and the ramp of the second
TwoRapidRateUpdates ==
    /\ nInputs = 2
    /\ gainLabel = <<>>
    /\ Len(modFreq.param.events) = 2
    /\ modFreq.param.events[1].type = "setValue"
    /\ modFreq.param.events[2].type = "linearRamp"
    /\ modFreq.param.events[2].time - modFreq.param.events[1].time
         < 2 * RampTicks

\* C6: after two rate updates less than 10 ms apart, the oscillator
\* frequency at the completion time of the second equals the second target.
C6_OscillatorReachesSecondTarget ==
    (TwoRapidRateUpdates /\ delivered > 0
        /\ currentTime = modFreq.param.events[2].time) =>
        frame.freq = modFreq.param.events[2].value

\* C9: no ramp scheduled on the rate offset has a negative target.
C9_NoNegativeRateTarget ==
    \A i \in DOMAIN modFreq.param.events :
        modFreq.param.events[i].type = "linearRamp" =>
            modFreq.param.events[i].value >= 0

----------------------------------------------------------------------------
(* Toggling and the parameters *)

\* C7: a toggle (the click and the settling of its call) changes no
\* parameter value and no scheduled event, a completed resume() leaves the
\* Context running, and while the Context is suspended parameters and
\* Context time change only by a slider event.
C7_TogglePreservesParameters ==
    [][/\ (pendingOps' # pendingOps \/
            (pc = "ready" /\ ctxState = "suspended" /\ nInputs' = nInputs))
          => UNCHANGED <<nodeVars, currentTime>>
       /\ (SettleStep /\ LastSettled.op = "resume" /\ LastSettled.ok)
          => ctxState' = "running"]_vars

\* On, Off, On have completed with a ramp of the output gain scheduled
\* before the suspend and still ahead
C7_Witness ==
    /\ Len(completed) >= 3
    /\ LET n == Len(completed)
       IN /\ completed[n - 2].op = "resume" /\ completed[n - 2].ok
          /\ completed[n - 1].op = "suspend" /\ completed[n - 1].ok
          /\ completed[n].op = "resume" /\ completed[n].ok
          /\ completed[n - 1].inputs = nInputs
    /\ ctxState = "running"
    /\ \E i \in DOMAIN masterGainNode.param.events :
          /\ masterGainNode.param.events[i].type = "linearRamp"
          /\ masterGainNode.param.events[i].time > currentTime
          /\ masterGainNode.param.events[i].value # Scale

----------------------------------------------------------------------------
(* Ring modulator stage *)

\* C8: the sample the depth stage delivered in the last rendered frame is
\* carrier * oscillator * depth for the depth gain g, g is within [0, 1],
\* and with g = 0 the sample is 0.
C8_RingOutput ==
    LET g == modulationGainNode.param.value
    IN /\ g \in 0..Scale
       /\ frame.ring * Scale * Scale = frame.carrier * frame.osc * g
       /\ g = 0 => frame.ring = 0

C8_Witness ==
    /\ ctxState = "running"
    /\ delivered > 0
    /\ frame.carrier # 0
    /\ frame.ring = 0

----------------------------------------------------------------------------
(* Redundant calls *)

\* the call that is being settled asks for the state the Context is in
RedundantSettle ==
    /\ SettleStep
    /\ LastSettled.op \in {"suspend", "resume"}
    /\ ctxState = StateAfter(LastSettled.op)

----------------------------------------------------------------------------
(* The output level conversion on its own: startup, then level inputs over
   a range of integer dBFS values, the extremes of double arithmetic among
   them *)

DigitChar(k) ==
    CASE k = 0 -> "0" [] k = 1 -> "1" [] k = 2 -> "2" [] k = 3 -> "3"
      [] k = 4 -> "4" [] k = 5 -> "5" [] k = 6 -> "6" [] k = 7 -> "7"
      [] k = 8 -> "8" [] k = 9 -> "9"

RECURSIVE NatChars(_)
NatChars(n) ==
    IF n < 10 THEN <<DigitChar(n)>>
    ELSE NatChars(n \div 10) \o <<DigitChar(n % 10)>>

\* the value string of an input element that holds the integer n
IntChars(n) == IF n < 0 THEN <<"-">> \o NatChars(0 - n) ELSE NatChars(n)

DbSpan == 45
DbExtremes == {-6500, -6499, -6480, -6140, 119, 780, 6160, 6180, 6200}
DbValues == ((0 - DbSpan)..(DbSpan - 20)) \cup DbExtremes
DbInputs == { IntChars(d) : d \in DbValues }

NextLevel ==
    \/ StartupSuspend
    \/ ResolveTransition
    \/ GetUserMediaResolve
    \/ SetupGraph
    \/ \E s \in DbInputs : GainSliderInput(s)

SpecLevel == Init /\ [][NextLevel]_vars

\* a < b for two doubles that are not NaN
DoubleLess(a, b) ==
    IF a.inf THEN FALSE
    ELSE IF b.inf THEN TRUE
    ELSE IF b.m = 0 THEN FALSE
    ELSE IF a.m = 0 THEN TRUE
    ELSE a.e < b.e \/ (a.e = b.e /\ a.m < b.m)

\* the result is a normal double: neither 0, nor subnormal, nor Infinity
NormalDouble(x) == ~x.nan /\ ~x.inf /\ x.m # 0 /\ x.e >= -307

\* b = a * 10 ** (1 / 20) to the precision of the mantissa
RatioStep(a, b) ==
    LET bm == IF b.e = a.e THEN b.m ELSE 10 * b.m
    IN /\ b.e \in {a.e, a.e + 1}
       /\ bm * 1000 - a.m * Pow10Frac[2] <= 2 * a.m
       /\ a.m * Pow10Frac[2] - bm * 1000 <= 2 * a.m

\* the dBFS value of the last level input, as Number gave it
LastLevel == gainLabel[1]
Db(d) == Num(d * Scale)

\* The statement without a range: for the level d of any input, db2a(0) is
\* exactly 1 and db2a(d') < db2a(d) for every d' < d.
C12_Db2aStrictlyIncreasingEverywhere ==
    (gainLabel # <<>> /\ ~LastLevel.nan) =>
        /\ db2a(Db(0)) = Double(1000, 0)
        /\ \A d \in DbValues :
              Db(d).n < LastLevel.n => DoubleLess(db2a(Db(d)), db2a(LastLevel))

\* C12: for the level d of any input, db2a(0) is exactly 1 and db2a(20)
\* exactly 10; where db2a(d) and db2a(d + 1) are normal doubles they differ
\* by the factor 10 ** (1 / 20); db2a(d') < db2a(d) for every d' < d where
\* both results are normal doubles, and db2a(d') <= db2a(d) otherwise.
C12_Db2aIsPowerOfTen ==
    (gainLabel # <<>> /\ ~LastLevel.nan) =>
        LET g == db2a(LastLevel)
            g1 == db2a(Num(LastLevel.n + Scale))
        IN /\ db2a(Db(0)) = Double(1000, 0)
           /\ db2a(Db(20)) = Double(1000, 1)
           /\ (NormalDouble(g) /\ NormalDouble(g1)) => RatioStep(g, g1)
           /\ \A d \in DbValues :
                 Db(d).n < LastLevel.n =>
                    /\ ~DoubleLess(g, db2a(Db(d)))
                    /\ (NormalDouble(g) /\ NormalDouble(db2a(Db(d))))
                       => DoubleLess(db2a(Db(d)), g)

\* a level of -6 dBFS has been handled and its gain 0.501 is the ramp target
C12_Witness ==
    /\ gainLabel # <<>>
    /\ LastLevel = Db(-6)
    /\ db2a(LastLevel) = Double(5012, -1)
    /\ Len(masterGainNode.param.events) = 2
    /\ masterGainNode.param.events[2].value = 501

----------------------------------------------------------------------------
(* Automation *)

\* the ramps of p that end at or after the current Context time
ScheduledRamps(p) ==
    { i \in DOMAIN p.events :
        p.events[i].type = "linearRamp" /\ p.events[i].time >= currentTime }

\* the target the last rate input and the last level input asked for
LastRateTarget == IF modLabel = <<>> THEN NaN ELSE Number(modLabel[1])
LastLevelTarget == IF gainLabel = <<>> THEN NaN ELSE ToFloat(db2a(LastLevel))

\* C13: on the rate offset and on the master gain at most one ramp is
\* scheduled at or after the current Context time, and its target is the
\* value of the most recent update of that parameter.
C13_OneRampPerParameter ==
    /\ Cardinality(ScheduledRamps(modFreq.param)) <= 1
    /\ Cardinality(ScheduledRamps(masterGainNode.param)) <= 1
    /\ \A i \in ScheduledRamps(modFreq.param) :
          LastRateTarget = Num(modFreq.param.events[i].value)
    /\ \A i \in ScheduledRamps(masterGainNode.param) :
          LastLevelTarget = Num(masterGainNode.param.events[i].value)

\* a second rate update has replaced the ramp of the first while it was
\* in progress
C13_Witness ==
    /\ TwoRapidRateUpdates
    /\ modFreq.param.events[2].time - modFreq.param.events[1].time > RampTicks
    /\ ScheduledRamps(modFreq.param) = {2}
    /\ modFreq.param.events[2].value # modFreq.param.events[1].value


\* the step is an update of parameter p to q that scheduled a new ramp
\* while the Context was running
RampIssued(p, q) ==
    /\ nInputs' = nInputs + 1
    /\ ctxState = "running"
    /\ q # p
    /\ q.events # <<>>
    /\ q.events[Len(q.events)].type = "linearRamp"
    /\ q.events[Len(q.events)].time = currentTime + RampTicks

\* the timeline of q gives at the time of the update the value the timeline
\* of p gave, and the new target at the end of the ramp
StartsFromCurrentValue(p, q) ==
    /\ ComputedValue(q, currentTime) = ComputedValue(p, currentTime)
    /\ ComputedValue(q, currentTime + RampTicks) = q.events[Len(q.events)].value

\* C14: an update issued while the Context runs leaves the value of its
\* parameter at the time of the update as it was, and the value is the new
\* target 10 ms later.
C14_RampStartsFromCurrentValue ==
    [][/\ RampIssued(modFreq.param, modFreq'.param)
          => StartsFromCurrentValue(modFreq.param, modFreq'.param)
       /\ RampIssued(masterGainNode.param, masterGainNode'.param)
          => StartsFromCurrentValue(masterGainNode.param,
                                    masterGainNode'.param)]_vars


----------------------------------------------------------------------------
(* Ramps and the Context timeline *)

\* the latest event of p is a ramp
LastIsRamp(p) ==
    p.events # <<>> /\ p.events[Len(p.events)].type = "linearRamp"

\* the latest ramp of p is under way: later than its predecessor in the
\* timeline, not yet at its end
RampInProgress(p) ==
    /\ LastIsRamp(p)
    /\ p.events[Len(p.events)].time > currentTime
    /\ p.events[Len(p.events) - 1].time < currentTime

\* a ramp whose end the Context time has reached is at its target
AtTargetWhenDue(p) ==
    (LastIsRamp(p) /\ currentTime >= p.events[Len(p.events)].time)
        => p.value = p.events[Len(p.events)].value

\* C15: an accepted rate update issues a ramp that ends RampTicks of Context
\* time after its issue; Context time
\* and the value of every parameter stand still in every step taken while
\* the Context is suspended, and every render step that takes Context time
\* to or past the end of the latest ramp leaves the parameter at the target,
\* however many toggles happened in between.
C15_RampsFollowContextTime ==
    /\ [][currentTime' # currentTime =>
             /\ AtTargetWhenDue(modFreq.param)'
             /\ AtTargetWhenDue(masterGainNode.param)']_vars
    /\ [][(pc = "ready" /\ ctxState = "suspended") =>
             /\ currentTime' = currentTime
             /\ modFreq'.param.value = modFreq.param.value
             /\ masterGainNode'.param.value = masterGainNode.param.value
             /\ ((modFreq'.param # modFreq.param
                    /\ ~Number(modLabel'[1]).nan) =>
                   (/\ LastIsRamp(modFreq'.param)
                    /\ modFreq'.param.events[Len(modFreq'.param.events)].time
                         = currentTime + RampTicks))]_vars

\* the Context is suspended in the middle of a ramp of the rate offset
C15_Witness ==
    /\ pc = "ready"
    /\ ctxState = "suspended"
    /\ RampInProgress(modFreq.param)
    /\ modFreq.param.value # modFreq.param.events[Len(modFreq.param.events)].value


----------------------------------------------------------------------------
(* Starting the sources *)

BothStarted == modOsc.starts = 1 /\ modFreq.starts = 1

\* the suspend() of the top-level code has completed
StartupSuspendDone ==
    \E i \in DOMAIN completed : completed[i].by = "startup" /\ completed[i].ok

\* The statement for every state: the Context is never running while a
\* source has not been started, and no source is started twice.
C16_NeverRunningBeforeStart ==
    /\ modOsc.starts <= 1 /\ modFreq.starts <= 1
    /\ ctxState = "running" => BothStarted

\* C16: each source is started exactly once, in the step that constructs
\* it, and once the startup suspend() has completed the Context is never
\* running while a source has not been started.
C16_StartedBeforeFirstResume ==
    /\ modOsc.starts <= 1 /\ modFreq.starts <= 1
    /\ modOsc.created => modOsc.starts = 1
    /\ modFreq.created => modFreq.starts = 1
    /\ (StartupSuspendDone /\ ctxState = "running") => BothStarted

C16_Witness ==
    /\ pc = "ready"
    /\ ctxState = "running"
    /\ delivered > 0
    /\ BothStarted


----------------------------------------------------------------------------
(* One call per toggle *)

OpsOf(q) ==
    LET t == SelectSeq(q, LAMBDA m : m.by = "toggle")
    IN [i \in 1..Len(t) |-> t[i].op]

\* the calls the toggles have issued so far, in the order of the clicks
ToggleOps == OpsOf(completed) \o OpsOf(pendingOps)

ClickStep == Len(ToggleOps') = Len(ToggleOps) + 1

\* C17: a toggle sends exactly one call to the Context, suspend() when
\* audioOn was true and resume() when it was false, and negates audioOn;
\* nothing else changes audioOn once the listeners are registered; so the
\* calls of consecutive toggles alternate.
C17_OneCallPerToggle ==
    /\ [][ClickStep =>
             /\ pendingOps' = Append(pendingOps,
                    Op(IF audioOn THEN "suspend" ELSE "resume", "toggle"))
             /\ audioOn' = ~audioOn]_vars
    /\ [][(pc = "ready" /\ audioOn' # audioOn) => ClickStep]_vars
    /\ [](\A i \in 1..(Len(ToggleOps) - 1) : ToggleOps[i] # ToggleOps[i + 1])

C17_Witness == ToggleOps = <<"resume", "suspend", "resume">>


----------------------------------------------------------------------------
(* The transport flag and the Context *)

NoneRejected == \A i \in DOMAIN completed : completed[i].ok

\* C18: once the listeners are registered, with no suspend() or resume() in
\* flight and none rejected so far, audioOn is true exactly when the
\* Context is running.
C18_FlagAgreesWhenSettled ==
    (pc = "ready" /\ InFlight = {} /\ NoneRejected) =>
        (audioOn <=> ctxState = "running")

\* On and Off have both been requested and settled
C18_Witness ==
    /\ pc = "ready"
    /\ InFlight = {}
    /\ NoneRejected
    /\ ToggleOps = <<"resume", "suspend">>
    /\ ~audioOn

\* C19: the depth gain is 0 with an empty timeline in every state.
C19_DepthStaysZero == modulationGainNode.param = AudioParam(0)

C19_Witness ==
    /\ modulationGainNode.created
    /\ nInputs >= 2
    /\ modLabel # <<>> /\ gainLabel # <<>>
    /\ ToggleOps # <<>>
    /\ currentTime >= 2


----------------------------------------------------------------------------
(* What a slider event leaves alone *)

InputStep == nInputs' = nInputs + 1

\* the step wrote the rate label or the rate offset
RateStep == InputStep /\ (modLabel' # modLabel \/ modFreq' # modFreq)

\* the step wrote the level label or the master gain
LevelStep ==
    InputStep /\ (gainLabel' # gainLabel \/ masterGainNode' # masterGainNode)

\* C20: a rate update leaves the master gain, the depth gain, audioOn and
\* the Context state as they were; an output-level update leaves the rate
\* offset, the depth gain, audioOn and the Context state as they were.
C20_UpdateTouchesOwnParameter ==
    [][/\ RateStep => UNCHANGED <<masterGainNode, gainLabel,
                                  modulationGainNode, audioOn, ctxState>>
       /\ LevelStep => UNCHANGED <<modFreq, modLabel, modulationGainNode,
                                   audioOn, ctxState>>
       /\ InputStep => UNCHANGED <<modulationGainNode, modOsc, audioOn,
                                   ctxState, pendingOps, currentTime>>]_vars

\* a rate update and a level update have each scheduled a ramp
C20_Witness ==
    /\ nInputs >= 2
    /\ LastIsRamp(modFreq.param)
    /\ LastIsRamp(masterGainNode.param)
    /\ modulationGainNode.param = AudioParam(0)

====
